---------------------------- MODULE Spec2Model ----------------------------
(***************************************************************************)
(* A model of github_activity.py: the command-line front end               *)
(* (parse_arguments, main), the fetch, the filter (filter_events,          *)
(* parse_event_date), the formatter (format_event, get_time_ago,           *)
(* get_friendly_event_name) and the display loop.                          *)
(*                                                                         *)
(* Representation.  A Python str is a sequence of one-character strings,   *)
(* so that lower(), replace(), capitalize(), the `in` test, int() and      *)
(* strptime() are computed character by character.  A Python dict is a     *)
(* function whose DOMAIN is the set of keys present.  A datetime is a      *)
(* record [days, secs, us]: the proleptic Gregorian ordinal of the date,   *)
(* the second of the day and the microsecond; datetimes compare            *)
(* lexicographically, as Python compares them.  The result of a call that  *)
(* can raise is a record [exc, val]: exc = "none" or the exception's name. *)
(***************************************************************************)
EXTENDS Integers, Sequences, FiniteSets, TLC

(***************************************************************************)
(* Bounds of the model.                                                    *)
(***************************************************************************)
\* the longest option list (the tokens after the username) a run is given
MaxArgs == 4
\* the longest event list a response carries
MaxBody == 1
\* the longest event list filter_events is given directly
MaxEvents == 2
\* the largest magnitude of a limit given to filter_events directly
MaxLimit == 2
\* the number of sample ages around each threshold of get_time_ago
AgeWindow == 6

(***************************************************************************)
(* Python values.                                                          *)
(***************************************************************************)
EmptyDict == [k \in {} |-> <<>>]

Get(d, k, default) == IF k \in DOMAIN d THEN d[k] ELSE default

Ok(v) == [exc |-> "none", val |-> v]

Raise(e) == [exc |-> e, val |-> <<>>]

(***************************************************************************)
(* str methods.                                                            *)
(***************************************************************************)
UpperChars == <<"A","B","C","D","E","F","G","H","I","J","K","L","M","N","O","P","Q","R","S","T","U","V","W","X","Y","Z">>

LowerChars == <<"a","b","c","d","e","f","g","h","i","j","k","l","m","n","o","p","q","r","s","t","u","v","w","x","y","z">>

DigitChars == <<"0","1","2","3","4","5","6","7","8","9">>

IsUpper(c) == \E k \in 1..26 : UpperChars[k] = c

IsLower(c) == \E k \in 1..26 : LowerChars[k] = c

IsDigit(c) == \E k \in 1..10 : DigitChars[k] = c

LowerChar(c) ==
    IF IsUpper(c) THEN LowerChars[CHOOSE k \in 1..26 : UpperChars[k] = c] ELSE c

UpperChar(c) ==
    IF IsLower(c) THEN UpperChars[CHOOSE k \in 1..26 : LowerChars[k] = c] ELSE c

\* s.lower()
Lower(s) == [k \in 1..Len(s) |-> LowerChar(s[k])]

\* s.capitalize(): the first character upper-cased, the rest lower-cased
Capitalize(s) ==
    [k \in 1..Len(s) |-> IF k = 1 THEN UpperChar(s[k]) ELSE LowerChar(s[k])]

\* s.title(): a letter is upper-cased iff no letter precedes it directly
Title(s) ==
    [k \in 1..Len(s) |->
        IF k > 1 /\ (IsUpper(s[k-1]) \/ IsLower(s[k-1]))
        THEN LowerChar(s[k]) ELSE UpperChar(s[k])]

\* sub in s
Contains(sub, s) ==
    \E k \in 0..(Len(s) - Len(sub)) : SubSeq(s, k + 1, k + Len(sub)) = sub

\* s.replace(old, new), old not empty: every non-overlapping occurrence,
\* leftmost first
RECURSIVE Replace(_, _, _)
Replace(s, old, new) ==
    IF Len(s) < Len(old) THEN s
    ELSE IF SubSeq(s, 1, Len(old)) = old
         THEN new \o Replace(SubSeq(s, Len(old) + 1, Len(s)), old, new)
         ELSE <<s[1]>> \o Replace(Tail(s), old, new)

\* str(n) of a natural number
RECURSIVE StrNat(_)
StrNat(n) ==
    IF n < 10 THEN <<DigitChars[n + 1]>>
    ELSE StrNat(n \div 10) \o <<DigitChars[(n % 10) + 1]>>

\* str(n), f"{n}"
Str(n) == IF n < 0 THEN <<"-">> \o StrNat(-n) ELSE StrNat(n)

\* sep.join(parts)
RECURSIVE Join(_, _)
Join(sep, parts) ==
    IF parts = <<>> THEN <<>>
    ELSE IF Len(parts) = 1 THEN parts[1]
         ELSE parts[1] \o sep \o Join(sep, Tail(parts))

DigitVal(c) == (CHOOSE k \in 1..10 : DigitChars[k] = c) - 1

\* the value of a non-empty string of decimal digits
RECURSIVE DigitsVal(_)
DigitsVal(s) ==
    IF Len(s) = 1 THEN DigitVal(s[1])
    ELSE 10 * DigitsVal(SubSeq(s, 1, Len(s) - 1)) + DigitVal(s[Len(s)])

\* s.strip() for the blank character
RECURSIVE LStrip(_)
LStrip(s) == IF s # <<>> /\ s[1] = " " THEN LStrip(Tail(s)) ELSE s

RECURSIVE RStrip(_)
RStrip(s) ==
    IF s # <<>> /\ s[Len(s)] = " " THEN RStrip(SubSeq(s, 1, Len(s) - 1)) ELSE s

\* the digit groups of an int literal: single underscores may separate digits
IntDigits(s) ==
    /\ s # <<>>
    /\ IsDigit(s[1]) /\ IsDigit(s[Len(s)])
    /\ \A k \in 1..Len(s) : IsDigit(s[k]) \/ (s[k] = "_" /\ IsDigit(s[k+1]))

\* int(s): blanks stripped, an optional sign, then digits; ValueError otherwise
PyInt(s) ==
    LET t == RStrip(LStrip(s))
        signed == t # <<>> /\ t[1] \in {"+", "-"}
        body == IF signed THEN Tail(t) ELSE t
        digits == SelectSeq(body, LAMBDA c : c # "_")
    IN  IF ~IntDigits(body) THEN Raise("ValueError")
        ELSE IF signed /\ t[1] = "-" THEN Ok(-DigitsVal(digits))
             ELSE Ok(DigitsVal(digits))

(***************************************************************************)
(* datetime.                                                               *)
(***************************************************************************)
IsLeap(y) == y % 4 = 0 /\ (y % 100 # 0 \/ y % 400 = 0)

DaysInMonth(y, m) ==
    IF m = 2 THEN (IF IsLeap(y) THEN 29 ELSE 28)
    ELSE IF m \in {4, 6, 9, 11} THEN 30 ELSE 31

DaysBeforeYear(y) ==
    (y - 1) * 365 + ((y - 1) \div 4) - ((y - 1) \div 100) + ((y - 1) \div 400)

RECURSIVE DaysBeforeMonth(_, _)
DaysBeforeMonth(y, m) ==
    IF m = 1 THEN 0 ELSE DaysBeforeMonth(y, m - 1) + DaysInMonth(y, m - 1)

\* datetime(y, mo, d, h, mi, s): ValueError when a field is out of range
MakeDatetime(y, mo, d, h, mi, s) ==
    IF /\ y \in 1..9999 /\ mo \in 1..12 /\ d \in 1..DaysInMonth(y, mo)
       /\ h \in 0..23 /\ mi \in 0..59 /\ s \in 0..59
    THEN Ok([days |-> DaysBeforeYear(y) + DaysBeforeMonth(y, mo) + d,
             secs |-> h * 3600 + mi * 60 + s,
             us   |-> 0])
    ELSE Raise("ValueError")

\* datetime.min = datetime(1, 1, 1, 0, 0)
DatetimeMin == [days |-> 1, secs |-> 0, us |-> 0]

\* a >= b on datetimes
DatetimeGE(a, b) ==
    \/ a.days > b.days
    \/ a.days = b.days /\ a.secs > b.secs
    \/ a.days = b.days /\ a.secs = b.secs /\ a.us >= b.us

\* (a - b).total_seconds(), rounded down to a whole second
TotalSeconds(a, b) ==
    LET whole == (a.days - b.days) * 86400 + (a.secs - b.secs)
    IN  IF a.us < b.us THEN whole - 1 ELSE whole

\* the year and the month of an ordinal day
YearOf(n) == CHOOSE y \in 1..9999 : DaysBeforeYear(y) < n /\ n <= DaysBeforeYear(y + 1)

MonthOf(n) ==
    LET y == YearOf(n)
        r == n - DaysBeforeYear(y)
    IN  CHOOSE m \in 1..12 :
            DaysBeforeMonth(y, m) < r /\ r <= DaysBeforeMonth(y, m) + DaysInMonth(y, m)

DayOf(n) ==
    n - DaysBeforeYear(YearOf(n)) - DaysBeforeMonth(YearOf(n), MonthOf(n))

\* a number left-padded with zeros to width w
RECURSIVE ZeroPad(_, _)
ZeroPad(s, w) == IF Len(s) >= w THEN s ELSE ZeroPad(<<"0">> \o s, w)

\* dt.strftime('%Y-%m-%d'); the C library decides whether a year below 1000
\* is padded to four digits (padYear)
Strftime(dt, padYear) ==
    (IF padYear THEN ZeroPad(Str(YearOf(dt.days)), 4) ELSE Str(YearOf(dt.days)))
    \o <<"-">> \o ZeroPad(Str(MonthOf(dt.days)), 2)
    \o <<"-">> \o ZeroPad(Str(DayOf(dt.days)), 2)

\* the number of leading decimal digits of s, at most max
RECURSIVE DigitRun(_, _)
DigitRun(s, max) ==
    IF max = 0 \/ s = <<>> \/ ~IsDigit(s[1]) THEN 0
    ELSE 1 + DigitRun(Tail(s), max - 1)

\* what the regular expression of a strptime directive accepts:
\* %Y four digits, %m 1..12, %d 1..31, %H 0..23, %M 0..59, %S 0..61
DirectiveAccepts(d, w, v) ==
    CASE d = "Y" -> w = 4
      [] d = "m" -> v \in 1..12
      [] d = "d" -> v \in 1..31
      [] d = "H" -> v \in 0..23
      [] d = "M" -> v \in 0..59
      [] d = "S" -> v \in 0..61
      [] OTHER   -> FALSE

\* the fields strptime's regular expression extracts from s under fmt, or
\* a failed match; literal characters match without regard to case
RECURSIVE StrptimeMatch(_, _, _)
StrptimeMatch(s, fmt, acc) ==
    IF fmt = <<>>
    THEN (IF s = <<>> THEN [ok |-> TRUE, f |-> acc] ELSE [ok |-> FALSE, f |-> acc])
    ELSE IF fmt[1] = "%"
    THEN LET d == fmt[2]
             w == DigitRun(s, IF d = "Y" THEN 4 ELSE 2)
         IN  IF w = 0 \/ ~DirectiveAccepts(d, w, DigitsVal(SubSeq(s, 1, w)))
             THEN [ok |-> FALSE, f |-> acc]
             ELSE StrptimeMatch(SubSeq(s, w + 1, Len(s)), SubSeq(fmt, 3, Len(fmt)),
                                (d :> DigitsVal(SubSeq(s, 1, w))) @@ acc)
    ELSE IF s # <<>> /\ LowerChar(s[1]) = LowerChar(fmt[1])
         THEN StrptimeMatch(Tail(s), Tail(fmt), acc)
         ELSE [ok |-> FALSE, f |-> acc]

\* datetime.strptime(s, fmt): fields the format lacks default to 0
Strptime(s, fmt) ==
    LET m == StrptimeMatch(s, fmt, ("Y" :> 1900) @@ ("m" :> 1) @@ ("d" :> 1)
                                   @@ ("H" :> 0) @@ ("M" :> 0) @@ ("S" :> 0))
    IN  IF ~m.ok THEN Raise("ValueError")
        ELSE MakeDatetime(m.f["Y"], m.f["m"], m.f["d"], m.f["H"], m.f["M"], m.f["S"])

(***************************************************************************)
(* The program's constants and functions.                                  *)
(***************************************************************************)
\* the dict of friendly names, in insertion order: <<friendly, GitHub type>>
EVENT_TYPE_MAP ==
    << <<<<"p","u","s","h">>, <<"P","u","s","h","E","v","e","n","t">>>>,
       <<<<"c","r","e","a","t","e">>, <<"C","r","e","a","t","e","E","v","e","n","t">>>>,
       <<<<"d","e","l","e","t","e">>, <<"D","e","l","e","t","e","E","v","e","n","t">>>>,
       <<<<"i","s","s","u","e","s">>, <<"I","s","s","u","e","s","E","v","e","n","t">>>>,
       <<<<"i","s","s","u","e","_","c","o","m","m","e","n","t">>, <<"I","s","s","u","e","C","o","m","m","e","n","t","E","v","e","n","t">>>>,
       <<<<"s","t","a","r">>, <<"W","a","t","c","h","E","v","e","n","t">>>>,
       <<<<"w","a","t","c","h">>, <<"W","a","t","c","h","E","v","e","n","t">>>>,
       <<<<"f","o","r","k">>, <<"F","o","r","k","E","v","e","n","t">>>>,
       <<<<"p","r">>, <<"P","u","l","l","R","e","q","u","e","s","t","E","v","e","n","t">>>>,
       <<<<"p","u","l","l","_","r","e","q","u","e","s","t">>, <<"P","u","l","l","R","e","q","u","e","s","t","E","v","e","n","t">>>>,
       <<<<"p","r","_","r","e","v","i","e","w">>, <<"P","u","l","l","R","e","q","u","e","s","t","R","e","v","i","e","w","E","v","e","n","t">>>>,
       <<<<"p","r","_","c","o","m","m","e","n","t">>, <<"P","u","l","l","R","e","q","u","e","s","t","R","e","v","i","e","w","C","o","m","m","e","n","t","E","v","e","n","t">>>>,
       <<<<"r","e","l","e","a","s","e">>, <<"R","e","l","e","a","s","e","E","v","e","n","t">>>>,
       <<<<"m","e","m","b","e","r">>, <<"M","e","m","b","e","r","E","v","e","n","t">>>> >>

\* key in EVENT_TYPE_MAP
InEventTypeMap(key) == \E k \in 1..Len(EVENT_TYPE_MAP) : EVENT_TYPE_MAP[k][1] = key

\* EVENT_TYPE_MAP[key]
EventTypeOf(key) ==
    EVENT_TYPE_MAP[CHOOSE k \in 1..Len(EVENT_TYPE_MAP) : EVENT_TYPE_MAP[k][1] = key][2]

\* seq[:n]: the first n elements, or all but the last -n when n is negative
SliceTo(seq, n) ==
    IF n >= 0 THEN SubSeq(seq, 1, IF n < Len(seq) THEN n ELSE Len(seq))
    ELSE SubSeq(seq, 1, Len(seq) + n)

\* parse_event_date with datetime.max where the code has datetime.min
parse_event_date_max(event) ==
    LET date_str == Get(event, "created_at", <<>>)
        parsed == Strptime(date_str, <<"%","Y","-","%","m","-","%","d","T","%","H",":","%","M",":","%","S","Z">>)
    IN  IF parsed.exc = "ValueError"
        THEN [days |-> 3652059, secs |-> 86399, us |-> 999999]
        ELSE parsed.val

\* parse_event_date(event): the parsed created_at, datetime.min on ValueError
parse_event_date(event) ==
    LET date_str == Get(event, "created_at", <<>>)
        parsed == Strptime(date_str, <<"%","Y","-","%","m","-","%","d","T","%","H",":","%","M",":","%","S","Z">>)
    IN  IF parsed.exc = "ValueError" THEN DatetimeMin ELSE parsed.val

\* filters.get(key) is truthy: the key is present and its value is not the
\* empty string (event_type, repo), not 0 (limit); a datetime is always truthy
FilterSet(filters, key) ==
    /\ key \in DOMAIN filters
    /\ CASE key = "limit"     -> filters[key] # 0
         [] key = "date_from" -> TRUE
         [] OTHER             -> filters[key] # <<>>

\* e.get('type') == event_type
TypeMatches(e, event_type) == "type" \in DOMAIN e /\ e["type"] = event_type

\* repo_filter in e.get('repo', {}).get('name', '').lower()
RepoMatches(e, repo_filter) ==
    Contains(repo_filter, Lower(Get(Get(e, "repo", EmptyDict), "name", <<>>)))

\* parse_event_date(e) >= date_from
DateMatches(e, date_from) == DatetimeGE(parse_event_date(e), date_from)

ByType(events, filters) ==
    IF FilterSet(filters, "event_type")
    THEN SelectSeq(events, LAMBDA e : TypeMatches(e, filters["event_type"]))
    ELSE events

ByRepo(events, filters) ==
    IF FilterSet(filters, "repo")
    THEN SelectSeq(events, LAMBDA e : RepoMatches(e, Lower(filters["repo"])))
    ELSE events

ByDate(events, filters) ==
    IF FilterSet(filters, "date_from")
    THEN SelectSeq(events, LAMBDA e : DateMatches(e, filters["date_from"]))
    ELSE events

ByLimit(events, filters) ==
    IF FilterSet(filters, "limit") THEN SliceTo(events, filters["limit"]) ELSE events

\* filter_events(events, filters)
filter_events(events, filters) ==
    ByLimit(ByDate(ByRepo(ByType(events, filters), filters), filters), filters)

\* 's' if n != 1 else ''
Plural(n) == IF n # 1 THEN <<"s">> ELSE <<>>

\* get_time_ago with <= where the code has <
TimeAgoInclusive(seconds) ==
    IF seconds <= 60 THEN <<"j","u","s","t"," ","n","o","w">>
    ELSE IF seconds <= 3600
    THEN LET minutes == seconds \div 60
         IN  Str(minutes) \o <<" ","m","i","n","u","t","e">> \o Plural(minutes) \o <<" ","a","g","o">>
    ELSE IF seconds <= 86400
    THEN LET hours == seconds \div 3600
         IN  Str(hours) \o <<" ","h","o","u","r">> \o Plural(hours) \o <<" ","a","g","o">>
    ELSE IF seconds <= 2592000
    THEN LET days == seconds \div 86400
         IN  Str(days) \o <<" ","d","a","y">> \o Plural(days) \o <<" ","a","g","o">>
    ELSE LET months == seconds \div 2592000
         IN  Str(months) \o <<" ","m","o","n","t","h">> \o Plural(months) \o <<" ","a","g","o">>

\* the body of get_time_ago once seconds = diff.total_seconds() is known
TimeAgo(seconds) ==
    IF seconds < 60 THEN <<"j","u","s","t"," ","n","o","w">>
    ELSE IF seconds < 3600
    THEN LET minutes == seconds \div 60
         IN  Str(minutes) \o <<" ","m","i","n","u","t","e">> \o Plural(minutes) \o <<" ","a","g","o">>
    ELSE IF seconds < 86400
    THEN LET hours == seconds \div 3600
         IN  Str(hours) \o <<" ","h","o","u","r">> \o Plural(hours) \o <<" ","a","g","o">>
    ELSE IF seconds < 2592000
    THEN LET days == seconds \div 86400
         IN  Str(days) \o <<" ","d","a","y">> \o Plural(days) \o <<" ","a","g","o">>
    ELSE LET months == seconds \div 2592000
         IN  Str(months) \o <<" ","m","o","n","t","h">> \o Plural(months) \o <<" ","a","g","o">>

\* get_time_ago(date), with now the value datetime.utcnow() returns
get_time_ago(date, now) == TimeAgo(TotalSeconds(now, date))

\* the description format_event builds before the date is added
Description(event) ==
    LET repo_name == Get(Get(event, "repo", EmptyDict), "name", <<"u","n","k","n","o","w","n"," ","r","e","p","o">>)
        payload == Get(event, "payload", EmptyDict)
        IsType(t) == "type" \in DOMAIN event /\ event["type"] = t
    IN  IF IsType(<<"P","u","s","h","E","v","e","n","t">>)
        THEN Ok(<<"P","u","s","h","e","d"," ">> \o Str(Len(Get(payload, "commits", <<>>)))
                \o <<" ","c","o","m","m","i","t","(","s",")"," ","t","o"," ">> \o repo_name)
        ELSE IF IsType(<<"C","r","e","a","t","e","E","v","e","n","t">>)
        THEN Ok(<<"C","r","e","a","t","e","d"," ">> \o Get(payload, "ref_type", <<"r","e","p","o","s","i","t","o","r","y">>)
                \o <<" ","i","n"," ">> \o repo_name)
        ELSE IF IsType(<<"D","e","l","e","t","e","E","v","e","n","t">>)
        THEN Ok(<<"D","e","l","e","t","e","d"," ">> \o Get(payload, "ref_type", <<"b","r","a","n","c","h">>)
                \o <<" ","i","n"," ">> \o repo_name)
        ELSE IF IsType(<<"I","s","s","u","e","s","E","v","e","n","t">>)
        THEN Ok(Capitalize(Get(payload, "action", <<"u","p","d","a","t","e","d">>))
                \o <<" ","a","n"," ","i","s","s","u","e"," ","i","n"," ">> \o repo_name)
        ELSE IF IsType(<<"I","s","s","u","e","C","o","m","m","e","n","t","E","v","e","n","t">>)
        THEN Ok(<<"C","o","m","m","e","n","t","e","d"," ","o","n"," ","a","n"," ","i","s","s","u","e"," ","i","n"," ">> \o repo_name)
        ELSE IF IsType(<<"W","a","t","c","h","E","v","e","n","t">>)
        THEN Ok(<<"S","t","a","r","r","e","d"," ">> \o repo_name)
        ELSE IF IsType(<<"F","o","r","k","E","v","e","n","t">>)
        THEN Ok(<<"F","o","r","k","e","d"," ">> \o repo_name)
        ELSE IF IsType(<<"P","u","l","l","R","e","q","u","e","s","t","E","v","e","n","t">>)
        THEN Ok(Capitalize(Get(payload, "action", <<"u","p","d","a","t","e","d">>))
                \o <<" ","a"," ","p","u","l","l"," ","r","e","q","u","e","s","t"," ","i","n"," ">> \o repo_name)
        ELSE IF IsType(<<"P","u","l","l","R","e","q","u","e","s","t","R","e","v","i","e","w","E","v","e","n","t">>)
        THEN Ok(<<"R","e","v","i","e","w","e","d"," ","a"," ","p","u","l","l"," ","r","e","q","u","e","s","t"," ","i","n"," ">> \o repo_name)
        ELSE IF IsType(<<"P","u","l","l","R","e","q","u","e","s","t","R","e","v","i","e","w","C","o","m","m","e","n","t","E","v","e","n","t">>)
        THEN Ok(<<"C","o","m","m","e","n","t","e","d"," ","o","n"," ","a"," ","p","u","l","l"," ","r","e","q","u","e","s","t"," ","i","n"," ">> \o repo_name)
        ELSE IF IsType(<<"R","e","l","e","a","s","e","E","v","e","n","t">>)
        THEN Ok(Capitalize(Get(payload, "action", <<"p","u","b","l","i","s","h","e","d">>))
                \o <<" ","a"," ","r","e","l","e","a","s","e"," ","i","n"," ">> \o repo_name)
        ELSE IF IsType(<<"M","e","m","b","e","r","E","v","e","n","t">>)
        THEN Ok(<<"A","d","d","e","d"," ","a"," ","c","o","l","l","a","b","o","r","a","t","o","r"," ","t","o"," ">> \o repo_name)
        \* event.get('type') is None when the key is absent, and None has no
        \* replace(): AttributeError
        ELSE IF "type" \notin DOMAIN event
        THEN Raise("AttributeError")
        ELSE Ok(Replace(event["type"], <<"E","v","e","n","t">>, <<>>) \o <<" ","i","n"," ">> \o repo_name)

\* format_event(event, show_date), with now the value datetime.utcnow() returns
format_event(event, show_date, now) ==
    LET description == Description(event)
    IN  IF description.exc # "none" THEN description
        ELSE IF show_date
        THEN Ok(description.val \o <<" ","(">>
                \o get_time_ago(parse_event_date(event), now) \o <<")">>)
        ELSE description

\* get_friendly_event_name(event_type): the first friendly name, in the
\* dict's order, of the type
get_friendly_event_name(event_type) ==
    IF \E k \in 1..Len(EVENT_TYPE_MAP) : EVENT_TYPE_MAP[k][2] = event_type
    THEN LET k == CHOOSE k \in 1..Len(EVENT_TYPE_MAP) :
                      /\ EVENT_TYPE_MAP[k][2] = event_type
                      /\ \A j \in 1..(k - 1) : EVENT_TYPE_MAP[j][2] # event_type
         IN  Title(Replace(EVENT_TYPE_MAP[k][1], <<"_">>, <<" ">>))
    ELSE Replace(event_type, <<"E","v","e","n","t">>, <<>>)

(***************************************************************************)
(* The state of one run of the program, and of the three harnesses that    *)
(* apply filter_events, format_event and get_time_ago to drawn inputs.     *)
(***************************************************************************)
VARIABLES
    pc,         \* where the run is: "start", "parse", "fetch", "filter",
                \* "display", "lines", "exit"
    args,       \* parse_arguments' args = sys.argv[1:]; <<>> once it returned
    i,          \* parse_arguments' index i into args (Python's, from 0)
    username,   \* the username parse_arguments returns, None before
    filters,    \* the filters dict
    out,        \* the lines printed so far
    exit_code,  \* the process's exit code, -1 while it runs
    requests,   \* the number of calls of urllib.request.urlopen
    outcome,    \* how the request ended: "none", "ok", "404", "http",
                \* "url", "json"
    events,     \* the list fetch_user_activity returned
    filtered,   \* the list filter_events returned
    k,          \* display_activity's position in its loop over the events
    shown,      \* the events whose line has been printed
    stages,     \* the stages of main entered so far, in order
    fEvents, fFilters, fOnce, fTwice, fpc,  \* the filter_events harness
    rEvent, rShow, rNow, rResult, rpc,      \* the format_event harness
    tDate, tNow, tAge, tResult, tpc         \* the get_time_ago harness

runVars ==
    <<pc, args, i, username, filters, out, exit_code, requests, outcome,
      events, filtered, k, shown, stages>>

filterVars == <<fEvents, fFilters, fOnce, fTwice, fpc>>

formatVars == <<rEvent, rShow, rNow, rResult, rpc>>

timeVars == <<tDate, tNow, tAge, tResult, tpc>>

vars == <<runVars, filterVars, formatVars, timeVars>>

\* Python's None: a sequence holding one value that is no character, so it
\* differs from every str
None == <<"None">>

\* d[key] = value on a dict
DictSet(d, key, value) == (key :> value) @@ d

\* c * n on a one-character str
RECURSIVE Repeat(_, _)
Repeat(c, n) == IF n = 0 THEN <<>> ELSE c \o Repeat(c, n - 1)

(***************************************************************************)
(* The inputs of a run.                                                    *)
(***************************************************************************)
\* the tokens an option list is made of
OptTokens ==
    { <<"-","-","t","y","p","e">>, <<"P","U","S","H">>, <<"-","-","r","e","p","o">>, <<"-","l">>, <<"1">>,
      <<"-","-","d","a","t","e">>, <<"0","0","0","1","-","0","3","-","1","2">>, <<"-","-","t","o","d","a","y">>, <<"-","-","w","e","e","k">> }

\* the sequences over S of length at most n
RECURSIVE SeqsUpTo(_, _)
SeqsUpTo(S, n) ==
    IF n = 0 THEN {<<>>}
    ELSE LET shorter == SeqsUpTo(S, n - 1)
         IN  shorter \cup {Append(s, x) : s \in shorter, x \in S}

\* the argument lists: none, or a username and up to MaxArgs option tokens
ArgLists == {<<>>} \cup {<<<<"o","c","t","o">>>> \o opts : opts \in SeqsUpTo(OptTokens, MaxArgs)}

\* the values datetime.utcnow() may return during a run
Clocks ==
    { [days |-> 74, secs |-> 43200, us |-> 0],
      [days |-> 74, secs |-> 43230, us |-> 250000] }

\* the event records a response is made of
RunEvents ==
    { [type |-> <<"P","u","s","h","E","v","e","n","t">>, repo |-> [name |-> <<"o","c","t","o","/","P","u","s","h","-","R","e","p","o">>],
       payload |-> [commits |-> <<1, 2, 3>>],
       created_at |-> <<"0","0","0","1","-","0","3","-","1","5","T","1","1",":","5","9",":","3","0","Z">>],
      [type |-> <<"F","o","o","E","v","e","n","t">>, repo |-> [name |-> <<"x">>],
       created_at |-> <<"y","e","s","t","e","r","d","a","y">>],
      [repo |-> [name |-> <<"o","c","t","o","/","r","e","p","o">>],
       created_at |-> <<"0","0","0","1","-","0","3","-","1","0","T","1","2",":","0","0",":","0","0","Z">>] }

\* the decoded bodies of a successful response
Responses == SeqsUpTo(RunEvents, MaxBody)

\* the failures of the request, with the lines fetch_user_activity prints
HttpErrors == { [code |-> 403, reason |-> <<"r","a","t","e"," ","l","i","m","i","t"," ","e","x","c","e","e","d","e","d">>] }

UrlErrors == { <<"N","a","m","e"," ","o","r"," ","s","e","r","v","i","c","e"," ","n","o","t"," ","k","n","o","w","n">> }

(***************************************************************************)
(* print_usage                                                             *)
(***************************************************************************)
UsageLines ==
    << <<"G","i","t","H","u","b"," ","U","s","e","r"," ","A","c","t","i","v","i","t","y"," ","C","L","I"," ","-"," ","F","i","l","t","e","r"," ","b","y"," ","e","v","e","n","t"," ","t","y","p","e",","," ","r","e","p","o",","," ","o","r"," ","d","a","t","e">>,
       <<>>, <<"U","s","a","g","e",":">>,
       <<" "," ","p","y","t","h","o","n"," ","g","i","t","h","u","b","_","a","c","t","i","v","i","t","y",".","p","y"," ","<","u","s","e","r","n","a","m","e",">"," ","[","o","p","t","i","o","n","s","]">>,
       <<>>, <<"O","p","t","i","o","n","s",":">>,
       <<" "," ","-","-","t","y","p","e",","," ","-","t"," ","<","t","y","p","e",">"," "," "," "," ","F","i","l","t","e","r"," ","b","y"," ","e","v","e","n","t"," ","t","y","p","e">>,
       <<" "," ","-","-","r","e","p","o",","," ","-","r"," ","<","r","e","p","o",">"," "," "," "," ","F","i","l","t","e","r"," ","b","y"," ","r","e","p","o","s","i","t","o","r","y"," ","n","a","m","e">>,
       <<" "," ","-","-","l","i","m","i","t",","," ","-","l"," ","<","n","u","m",">"," "," "," "," ","L","i","m","i","t"," ","n","u","m","b","e","r"," ","o","f"," ","r","e","s","u","l","t","s">>,
       <<" "," ","-","-","d","a","t","e",","," ","-","d"," ","<","d","a","t","e",">"," "," "," "," ","S","h","o","w"," ","e","v","e","n","t","s"," ","a","f","t","e","r"," ","d","a","t","e"," ","(","Y","Y","Y","Y","-","M","M","-","D","D",")">>,
       <<" "," ","-","-","t","o","d","a","y"," "," "," "," "," "," "," "," "," "," "," "," "," "," ","S","h","o","w"," ","o","n","l","y"," ","t","o","d","a","y","'","s"," ","e","v","e","n","t","s">>,
       <<" "," ","-","-","w","e","e","k"," "," "," "," "," "," "," "," "," "," "," "," "," "," "," ","S","h","o","w"," ","e","v","e","n","t","s"," ","f","r","o","m"," ","l","a","s","t"," ","7"," ","d","a","y","s">>,
       <<>>, <<"E","v","e","n","t"," ","T","y","p","e","s",":">>,
       <<" "," ","p","u","s","h",","," ","c","r","e","a","t","e",","," ","d","e","l","e","t","e",","," ","i","s","s","u","e","s",","," ","i","s","s","u","e","_","c","o","m","m","e","n","t",","," ","s","t","a","r",",">>,
       <<" "," ","f","o","r","k",","," ","p","r"," ","(","p","u","l","l","_","r","e","q","u","e","s","t",")",","," ","p","r","_","r","e","v","i","e","w",","," ","p","r","_","c","o","m","m","e","n","t",",">>,
       <<" "," ","r","e","l","e","a","s","e",","," ","m","e","m","b","e","r">>,
       <<>>, <<"E","x","a","m","p","l","e","s",":">>,
       <<" "," ","p","y","t","h","o","n"," ","g","i","t","h","u","b","_","a","c","t","i","v","i","t","y",".","p","y"," ","k","a","m","r","a","n","a","h","m","e","d","s","e">>,
       <<" "," ","p","y","t","h","o","n"," ","g","i","t","h","u","b","_","a","c","t","i","v","i","t","y",".","p","y"," ","k","a","m","r","a","n","a","h","m","e","d","s","e"," ","-","-","t","y","p","e"," ","p","u","s","h">>,
       <<" "," ","p","y","t","h","o","n"," ","g","i","t","h","u","b","_","a","c","t","i","v","i","t","y",".","p","y"," ","k","a","m","r","a","n","a","h","m","e","d","s","e"," ","-","-","t","y","p","e"," ","i","s","s","u","e","s"," ","-","-","l","i","m","i","t"," ","5">>,
       <<" "," ","p","y","t","h","o","n"," ","g","i","t","h","u","b","_","a","c","t","i","v","i","t","y",".","p","y"," ","k","a","m","r","a","n","a","h","m","e","d","s","e"," ","-","-","r","e","p","o"," ","d","e","v","e","l","o","p","e","r","-","r","o","a","d","m","a","p">>,
       <<" "," ","p","y","t","h","o","n"," ","g","i","t","h","u","b","_","a","c","t","i","v","i","t","y",".","p","y"," ","k","a","m","r","a","n","a","h","m","e","d","s","e"," ","-","-","d","a","t","e"," ","2","0","2","4","-","0","1","-","0","1">>,
       <<" "," ","p","y","t","h","o","n"," ","g","i","t","h","u","b","_","a","c","t","i","v","i","t","y",".","p","y"," ","k","a","m","r","a","n","a","h","m","e","d","s","e"," ","-","-","w","e","e","k"," ","-","-","t","y","p","e"," ","p","u","s","h">> >>

(***************************************************************************)
(* parse_arguments and main                                                *)
(***************************************************************************)
\* sys.exit(code) after printing lines
Exit(lines, code) ==
    /\ out' = out \o lines
    /\ pc' = "exit"
    /\ exit_code' = code

\* the token parse_arguments' loop is looking at, args[i]
Arg == args[i + 1]

\* args[i + 1], the value of the flag at i
Value == args[i + 2]

\* i + 1 < len(args)
HasValue == i + 1 < Len(args)

InLoop == pc = "parse" /\ i < Len(args)

\* main without the sys.exit(1) that follows print_usage()
ParseStartNoExit ==
    /\ pc = "start"
    /\ stages' = Append(stages, "parse")
    /\ IF Len(args) = 0
       THEN /\ out' = out \o UsageLines
            /\ pc' = "fetch"
            /\ UNCHANGED <<args, i, username, filters, exit_code>>
       ELSE /\ username' = args[1]
            /\ filters' = EmptyDict
            /\ i' = 1
            /\ pc' = "parse"
            /\ UNCHANGED <<args, out, exit_code>>
    /\ UNCHANGED <<requests, outcome, events, filtered, k, shown>>

\* the start of parse_arguments, and main's exit when it returns None
ParseStart ==
    /\ pc = "start"
    /\ stages' = Append(stages, "parse")
    /\ IF Len(args) = 0
       THEN /\ Exit(UsageLines, 1)
            /\ UNCHANGED <<args, i, username, filters>>
       ELSE /\ username' = args[1]
            /\ filters' = EmptyDict
            /\ i' = 1
            /\ pc' = "parse"
            /\ UNCHANGED <<args, out, exit_code>>
    /\ UNCHANGED <<requests, outcome, events, filtered, k, shown>>

\* the --type branch with an unknown alias clearing the event_type
ParseTypeReset ==
    /\ InLoop
    /\ Arg \in {<<"-","-","t","y","p","e">>, <<"-","t">>}
    /\ IF HasValue
       THEN LET event_filter == Lower(Value)
            IN  /\ IF InEventTypeMap(event_filter)
                   THEN /\ filters' = DictSet(filters, "event_type", EventTypeOf(event_filter))
                        /\ out' = out
                   ELSE /\ out' = Append(out, <<"W","a","r","n","i","n","g",":"," ","U","n","k","n","o","w","n"," ","e","v","e","n","t"," ","t","y","p","e"," ","'">>
                                              \o event_filter \o <<"'","."," ","I","g","n","o","r","i","n","g",".">>)
                        /\ filters' = [key \in DOMAIN filters \ {"event_type"} |-> filters[key]]
                /\ i' = i + 2
                /\ UNCHANGED <<pc, exit_code>>
       ELSE /\ Exit(<<<<"E","r","r","o","r",":"," ","-","-","t","y","p","e"," ","r","e","q","u","i","r","e","s"," ","a"," ","v","a","l","u","e">>>>, 1)
            /\ UNCHANGED <<i, filters>>
    /\ UNCHANGED <<args, username, requests, outcome, events, filtered, k, shown, stages>>

\* the loop's --type branch
ParseType ==
    /\ InLoop
    /\ Arg \in {<<"-","-","t","y","p","e">>, <<"-","t">>}
    /\ IF HasValue
       THEN LET event_filter == Lower(Value)
            IN  /\ IF InEventTypeMap(event_filter)
                   THEN /\ filters' = DictSet(filters, "event_type", EventTypeOf(event_filter))
                        /\ out' = out
                   ELSE /\ out' = Append(out, <<"W","a","r","n","i","n","g",":"," ","U","n","k","n","o","w","n"," ","e","v","e","n","t"," ","t","y","p","e"," ","'">>
                                              \o event_filter \o <<"'","."," ","I","g","n","o","r","i","n","g",".">>)
                        /\ filters' = filters
                /\ i' = i + 2
                /\ UNCHANGED <<pc, exit_code>>
       ELSE /\ Exit(<<<<"E","r","r","o","r",":"," ","-","-","t","y","p","e"," ","r","e","q","u","i","r","e","s"," ","a"," ","v","a","l","u","e">>>>, 1)
            /\ UNCHANGED <<i, filters>>
    /\ UNCHANGED <<args, username, requests, outcome, events, filtered, k, shown, stages>>

\* the loop's --repo branch
ParseRepo ==
    /\ InLoop
    /\ Arg \in {<<"-","-","r","e","p","o">>, <<"-","r">>}
    /\ IF HasValue
       THEN /\ filters' = DictSet(filters, "repo", Value)
            /\ i' = i + 2
            /\ UNCHANGED <<pc, out, exit_code>>
       ELSE /\ Exit(<<<<"E","r","r","o","r",":"," ","-","-","r","e","p","o"," ","r","e","q","u","i","r","e","s"," ","a"," ","v","a","l","u","e">>>>, 1)
            /\ UNCHANGED <<i, filters>>
    /\ UNCHANGED <<args, username, requests, outcome, events, filtered, k, shown, stages>>

\* the loop's --limit branch
ParseLimit ==
    /\ InLoop
    /\ Arg \in {<<"-","-","l","i","m","i","t">>, <<"-","l">>}
    /\ IF HasValue
       THEN LET n == PyInt(Value)
            IN  IF n.exc = "ValueError"
                THEN /\ Exit(<<<<"E","r","r","o","r",":"," ","-","-","l","i","m","i","t"," ","m","u","s","t"," ","b","e"," ","a"," ","n","u","m","b","e","r">>>>, 1)
                     /\ UNCHANGED <<i, filters>>
                ELSE /\ filters' = DictSet(filters, "limit", n.val)
                     /\ i' = i + 2
                     /\ UNCHANGED <<pc, out, exit_code>>
       ELSE /\ Exit(<<<<"E","r","r","o","r",":"," ","-","-","l","i","m","i","t"," ","r","e","q","u","i","r","e","s"," ","a"," ","v","a","l","u","e">>>>, 1)
            /\ UNCHANGED <<i, filters>>
    /\ UNCHANGED <<args, username, requests, outcome, events, filtered, k, shown, stages>>

\* the loop's --date branch
ParseDate ==
    /\ InLoop
    /\ Arg \in {<<"-","-","d","a","t","e">>, <<"-","d">>}
    /\ IF HasValue
       THEN LET d == Strptime(Value, <<"%","Y","-","%","m","-","%","d">>)
            IN  IF d.exc = "ValueError"
                THEN /\ Exit(<<<<"E","r","r","o","r",":"," ","-","-","d","a","t","e"," ","m","u","s","t"," ","b","e"," ","i","n"," ","f","o","r","m","a","t"," ","Y","Y","Y","Y","-","M","M","-","D","D">>>>, 1)
                     /\ UNCHANGED <<i, filters>>
                ELSE /\ filters' = DictSet(filters, "date_from", d.val)
                     /\ i' = i + 2
                     /\ UNCHANGED <<pc, out, exit_code>>
       ELSE /\ Exit(<<<<"E","r","r","o","r",":"," ","-","-","d","a","t","e"," ","r","e","q","u","i","r","e","s"," ","a"," ","v","a","l","u","e">>>>, 1)
            /\ UNCHANGED <<i, filters>>
    /\ UNCHANGED <<args, username, requests, outcome, events, filtered, k, shown, stages>>

\* the loop's --today branch: the start of the current UTC day
ParseToday ==
    /\ InLoop
    /\ Arg = <<"-","-","t","o","d","a","y">>
    /\ \E now \in Clocks :
           filters' = DictSet(filters, "date_from", [now EXCEPT !.secs = 0, !.us = 0])
    /\ i' = i + 1
    /\ UNCHANGED <<pc, out, exit_code>>
    /\ UNCHANGED <<args, username, requests, outcome, events, filtered, k, shown, stages>>

\* the loop's --week branch: now - timedelta(days=7); a date before
\* datetime.min is an OverflowError nothing catches
ParseWeek ==
    /\ InLoop
    /\ Arg = <<"-","-","w","e","e","k">>
    /\ \E now \in Clocks :
           IF now.days - 7 >= 1
           THEN /\ filters' = DictSet(filters, "date_from", [now EXCEPT !.days = @ - 7])
                /\ i' = i + 1
                /\ UNCHANGED <<pc, out, exit_code>>
           ELSE /\ Exit(<<>>, 1)
                /\ UNCHANGED <<i, filters>>
    /\ UNCHANGED <<args, username, requests, outcome, events, filtered, k, shown, stages>>

\* the loop's else branch
ParseUnknown ==
    /\ InLoop
    /\ Arg \notin {<<"-","-","t","y","p","e">>, <<"-","t">>, <<"-","-","r","e","p","o">>, <<"-","r">>, <<"-","-","l","i","m","i","t">>, <<"-","l">>,
                   <<"-","-","d","a","t","e">>, <<"-","d">>, <<"-","-","t","o","d","a","y">>, <<"-","-","w","e","e","k">>}
    /\ out' = Append(out, <<"W","a","r","n","i","n","g",":"," ","U","n","k","n","o","w","n"," ","a","r","g","u","m","e","n","t"," ","'">> \o Arg \o <<"'","."," ","I","g","n","o","r","i","n","g",".">>)
    /\ i' = i + 1
    /\ UNCHANGED <<pc, filters, exit_code>>
    /\ UNCHANGED <<args, username, requests, outcome, events, filtered, k, shown, stages>>

\* parse_arguments returns (its locals args and i are gone) and main prints
\* its progress line
ParseReturn ==
    /\ pc = "parse"
    /\ i >= Len(args)
    /\ args' = <<>>
    /\ i' = 0
    /\ out' = Append(out, <<"F","e","t","c","h","i","n","g"," ","a","c","t","i","v","i","t","y"," ","f","o","r"," ","G","i","t","H","u","b"," ","u","s","e","r",":"," ">> \o username \o <<".",".",".">>)
    /\ pc' = "fetch"
    /\ UNCHANGED <<username, filters, exit_code, requests, outcome, events,
                   filtered, k, shown, stages>>

\* fetch_user_activity trying a second time when the first request fails
FetchRetry ==
    /\ pc = "fetch"
    /\ requests' = requests + 1
    /\ stages' = IF requests = 0 THEN Append(stages, "fetch") ELSE stages
    /\ \/ /\ outcome' \in {"404", "http", "url", "json"}
          /\ IF requests = 0
             THEN pc' = "fetch" /\ UNCHANGED <<out, exit_code>>
             ELSE Exit(<<<<"E","r","r","o","r",":"," ","R","e","c","e","i","v","e","d"," ","i","n","v","a","l","i","d"," ","d","a","t","a"," ","f","r","o","m"," ","G","i","t","H","u","b",".">>>>, 1)
          /\ events' = events
       \/ \E body \in Responses :
          /\ outcome' = "ok"
          /\ events' = body
          /\ pc' = "filter"
          /\ UNCHANGED <<out, exit_code>>
    /\ UNCHANGED <<args, i, username, filters, filtered, k, shown>>

\* fetch_user_activity: one urlopen; every failure prints and exits with 1
Fetch ==
    /\ pc = "fetch"
    /\ requests' = requests + 1
    /\ stages' = Append(stages, "fetch")
    /\ \/ /\ outcome' = "404"
          /\ Exit(<<<<"E","r","r","o","r",":"," ","U","s","e","r"," ","'">> \o username \o <<"'"," ","n","o","t"," ","f","o","u","n","d",".">>>>, 1)
          /\ events' = events
       \/ \E e \in HttpErrors :
          /\ outcome' = "http"
          /\ Exit(<<<<"E","r","r","o","r",":"," ","H","T","T","P"," ">> \o Str(e.code) \o <<" ","-"," ">> \o e.reason>>, 1)
          /\ events' = events
       \/ \E reason \in UrlErrors :
          /\ outcome' = "url"
          /\ Exit(<<<<"E","r","r","o","r",":"," ","C","o","u","l","d"," ","n","o","t"," ","c","o","n","n","e","c","t"," ","t","o"," ","G","i","t","H","u","b","."," ","C","h","e","c","k"," ","y","o","u","r"," ","i","n","t","e","r","n","e","t"," ","c","o","n","n","e","c","t","i","o","n",".">>,
                    <<"D","e","t","a","i","l","s",":"," ">> \o reason>>, 1)
          /\ events' = events
       \/ /\ outcome' = "json"
          /\ Exit(<<<<"E","r","r","o","r",":"," ","R","e","c","e","i","v","e","d"," ","i","n","v","a","l","i","d"," ","d","a","t","a"," ","f","r","o","m"," ","G","i","t","H","u","b",".">>>>, 1)
          /\ events' = events
       \/ \E body \in Responses :
          /\ outcome' = "ok"
          /\ events' = body
          /\ pc' = "filter"
          /\ UNCHANGED <<out, exit_code>>
    /\ UNCHANGED <<args, i, username, filters, filtered, k, shown>>

\* main's call of filter_events
Filter ==
    /\ pc = "filter"
    /\ stages' = Append(stages, "filter")
    /\ filtered' = filter_events(events, filters)
    /\ pc' = "display"
    /\ UNCHANGED <<args, i, username, filters, out, exit_code, requests, outcome,
                   events, k, shown>>

\* the filter_desc list of display_activity
FilterDesc(padYear) ==
    (IF FilterSet(filters, "event_type")
     THEN <<<<"T","y","p","e",":"," ">> \o get_friendly_event_name(filters["event_type"])>> ELSE <<>>)
    \o (IF FilterSet(filters, "repo")
        THEN <<<<"R","e","p","o",":"," ">> \o filters["repo"]>> ELSE <<>>)
    \o (IF FilterSet(filters, "date_from")
        THEN <<<<"S","i","n","c","e",":"," ">> \o Strftime(filters["date_from"], padYear)>> ELSE <<>>)

\* display_activity up to its loop: nothing to show (and main ends), or the
\* heading
DisplayHeader ==
    /\ pc = "display"
    /\ stages' = Append(stages, "display")
    /\ IF filtered = <<>>
       THEN /\ Exit(<<<<"N","o"," ","a","c","t","i","v","i","t","y"," ","f","o","u","n","d"," ","m","a","t","c","h","i","n","g"," ","t","h","e"," ","f","i","l","t","e","r","s",".">>>>, 0)
            /\ k' = k
       ELSE \E padYear \in BOOLEAN :
            /\ out' = out
                      \o <<<<>>, <<"R","e","c","e","n","t"," ","A","c","t","i","v","i","t","y"," ","(">> \o Str(Len(filtered)) \o <<" ","e","v","e","n","t","s",")">>>>
                      \o (IF FilterDesc(padYear) # <<>>
                          THEN <<<<"F","i","l","t","e","r","s",":"," ">> \o Join(<<","," ">>, FilterDesc(padYear))>>
                          ELSE <<>>)
                      \o <<Repeat(<<"-">>, 60)>>
            /\ k' = 1
            /\ pc' = "lines"
            /\ exit_code' = exit_code
    /\ UNCHANGED <<args, i, username, filters, requests, outcome, events, filtered, shown>>

\* one round of display_activity's loop; an exception format_event raises
\* ends the process with a traceback and exit code 1
DisplayEvent ==
    /\ pc = "lines"
    /\ k <= Len(filtered)
    /\ \E now \in Clocks :
         LET formatted == format_event(filtered[k], "date_from" \in DOMAIN filters, now)
         IN  IF formatted.exc # "none"
             THEN /\ Exit(<<>>, 1)
                  /\ UNCHANGED <<k, shown>>
             ELSE /\ out' = Append(out, <<"-"," ">> \o formatted.val)
                  /\ shown' = Append(shown, filtered[k])
                  /\ k' = k + 1
                  /\ UNCHANGED <<pc, exit_code>>
    /\ UNCHANGED <<args, i, username, filters, requests, outcome, events, filtered, stages>>

\* the loop is over: display_activity and main return
DisplayReturn ==
    /\ pc = "lines"
    /\ k > Len(filtered)
    /\ Exit(<<>>, 0)
    /\ UNCHANGED <<args, i, username, filters, requests, outcome, events, filtered,
                   k, shown, stages>>

(***************************************************************************)
(* The run of the program.                                                 *)
(***************************************************************************)
RunInit ==
    /\ pc = "start"
    /\ args \in ArgLists
    /\ i = 0
    /\ username = None
    /\ filters = EmptyDict
    /\ out = <<>>
    /\ exit_code = -1
    /\ requests = 0
    /\ outcome = "none"
    /\ events = <<>>
    /\ filtered = <<>>
    /\ k = 0
    /\ shown = <<>>
    /\ stages = <<>>

\* the run's variables while a harness runs instead
RunOff ==
    /\ pc = "off"
    /\ args = <<>>
    /\ i = 0
    /\ username = None
    /\ filters = EmptyDict
    /\ out = <<>>
    /\ exit_code = -1
    /\ requests = 0
    /\ outcome = "none"
    /\ events = <<>>
    /\ filtered = <<>>
    /\ k = 0
    /\ shown = <<>>
    /\ stages = <<>>

FilterOff ==
    /\ fEvents = <<>> /\ fFilters = EmptyDict /\ fOnce = <<>> /\ fTwice = <<>>
    /\ fpc = "off"

FormatOff ==
    /\ rEvent = EmptyDict /\ rShow = FALSE /\ rNow = DatetimeMin
    /\ rResult = Ok(<<>>) /\ rpc = "off"

TimeOff ==
    /\ tDate = DatetimeMin /\ tNow = DatetimeMin /\ tAge = 0 /\ tResult = <<>>
    /\ tpc = "off"

Init == RunInit /\ FilterOff /\ FormatOff /\ TimeOff

Next ==
    \/ ParseStart /\ UNCHANGED <<filterVars, formatVars, timeVars>>
    \/ ParseType /\ UNCHANGED <<filterVars, formatVars, timeVars>>
    \/ ParseRepo /\ UNCHANGED <<filterVars, formatVars, timeVars>>
    \/ ParseLimit /\ UNCHANGED <<filterVars, formatVars, timeVars>>
    \/ ParseDate /\ UNCHANGED <<filterVars, formatVars, timeVars>>
    \/ ParseToday /\ UNCHANGED <<filterVars, formatVars, timeVars>>
    \/ ParseWeek /\ UNCHANGED <<filterVars, formatVars, timeVars>>
    \/ ParseUnknown /\ UNCHANGED <<filterVars, formatVars, timeVars>>
    \/ ParseReturn /\ UNCHANGED <<filterVars, formatVars, timeVars>>
    \/ Fetch /\ UNCHANGED <<filterVars, formatVars, timeVars>>
    \/ Filter /\ UNCHANGED <<filterVars, formatVars, timeVars>>
    \/ DisplayHeader /\ UNCHANGED <<filterVars, formatVars, timeVars>>
    \/ DisplayEvent /\ UNCHANGED <<filterVars, formatVars, timeVars>>
    \/ DisplayReturn /\ UNCHANGED <<filterVars, formatVars, timeVars>>

Spec == Init /\ [][Next]_vars

(***************************************************************************)
(* filter_events applied to a drawn event list and filters dict, and then  *)
(* to its own result.                                                      *)
(***************************************************************************)
\* the drawn records: with and without type, repo, name and created_at; the
\* created_at strings are timestamps, timestamps written loosely (lower-case
\* t and z, one-digit fields) and strings that are no timestamp
FilterEvents ==
    { [type |-> <<"P","u","s","h","E","v","e","n","t">>, repo |-> [name |-> <<"o","c","t","o","/","P","u","s","h","-","R","e","p","o">>],
       created_at |-> <<"0","0","0","1","-","0","3","-","1","5","T","1","1",":","5","9",":","3","0","Z">>],
      [type |-> <<"W","a","t","c","h","E","v","e","n","t">>, repo |-> [name |-> <<"x">>],
       created_at |-> <<"y","e","s","t","e","r","d","a","y">>],
      [repo |-> [name |-> <<"o","c","t","o","/","r","e","p","o">>], created_at |-> <<"0","0","0","1","-","0","3","-","1","0","T","1","2",":","0","0",":","0","0","Z">>],
      [type |-> <<"W","a","t","c","h","E","v","e","n","t">>],
      [type |-> <<"P","u","s","h","E","v","e","n","t">>, repo |-> [name |-> <<"x">>],
       created_at |-> <<"0","0","0","1","-","1","3","-","0","1","T","0","0",":","0","0",":","0","0","Z">>],
      [type |-> <<"W","a","t","c","h","E","v","e","n","t">>, repo |-> [name |-> <<"o","c","t","o","/","P","u","s","h","-","R","e","p","o">>],
       created_at |-> <<"0","0","0","1","-","0","3","-","1","5","t","1","1",":","5","9",":","3","0","z">>],
      [type |-> <<"P","u","s","h","E","v","e","n","t">>, repo |-> EmptyDict,
       created_at |-> <<"0","0","0","1","-","0","2","-","2","9","T","1","0",":","0","0",":","0","0","Z">>],
      [type |-> <<"p","u","s","h","e","v","e","n","t">>, repo |-> [name |-> <<"O","C","T","O","/","x">>],
       created_at |-> <<"0","0","0","1","-","3","-","1","5","T","9",":","5",":","3","0","Z">>] }

\* the dicts with no key or the one key, drawn from vals
Opt(key, vals) == {EmptyDict} \cup {key :> v : v \in vals}

\* the filters dicts parse_arguments can build
FilterSpecs ==
    { a @@ b @@ c @@ d :
        a \in Opt("event_type", {<<"P","u","s","h","E","v","e","n","t">>, <<"W","a","t","c","h","E","v","e","n","t">>}),
        b \in Opt("repo", {<<>>, <<"O","C","T","O">>}),
        c \in Opt("date_from", {DatetimeMin, [days |-> 71, secs |-> 0, us |-> 0]}),
        d \in Opt("limit", (0 - MaxLimit)..MaxLimit) }

FilterInit ==
    /\ fEvents \in SeqsUpTo(FilterEvents, MaxEvents)
    /\ fFilters \in FilterSpecs
    /\ fOnce = <<>>
    /\ fTwice = <<>>
    /\ fpc = "in"

FilterApply ==
    /\ fpc = "in"
    /\ fOnce' = filter_events(fEvents, fFilters)
    /\ fpc' = "once"
    /\ UNCHANGED <<fEvents, fFilters, fTwice>>

FilterAgain ==
    /\ fpc = "once"
    /\ fTwice' = filter_events(fOnce, fFilters)
    /\ fpc' = "twice"
    /\ UNCHANGED <<fEvents, fFilters, fOnce>>

FilterNext ==
    \/ FilterApply /\ UNCHANGED <<runVars, formatVars, timeVars>>
    \/ FilterAgain /\ UNCHANGED <<runVars, formatVars, timeVars>>

InitFilter == RunOff /\ FilterInit /\ FormatOff /\ TimeOff

SpecFilter == InitFilter /\ [][FilterNext]_vars

(***************************************************************************)
(* format_event applied to a drawn record.                                 *)
(***************************************************************************)
KnownTypes ==
    { <<"P","u","s","h","E","v","e","n","t">>, <<"C","r","e","a","t","e","E","v","e","n","t">>, <<"D","e","l","e","t","e","E","v","e","n","t">>, <<"I","s","s","u","e","s","E","v","e","n","t">>,
      <<"I","s","s","u","e","C","o","m","m","e","n","t","E","v","e","n","t">>, <<"W","a","t","c","h","E","v","e","n","t">>, <<"F","o","r","k","E","v","e","n","t">>, <<"P","u","l","l","R","e","q","u","e","s","t","E","v","e","n","t">>,
      <<"P","u","l","l","R","e","q","u","e","s","t","R","e","v","i","e","w","E","v","e","n","t">>, <<"P","u","l","l","R","e","q","u","e","s","t","R","e","v","i","e","w","C","o","m","m","e","n","t","E","v","e","n","t">>,
      <<"R","e","l","e","a","s","e","E","v","e","n","t">>, <<"M","e","m","b","e","r","E","v","e","n","t">> }

FormatEvents ==
    { a @@ b @@ c @@ d :
        a \in Opt("type", KnownTypes \cup {<<"F","o","o","E","v","e","n","t">>, <<"G","o","l","l","u","m","E","v","e","n","t">>, <<"S","p","o","n","s","o","r","s","h","i","p">>}),
        b \in Opt("repo", {EmptyDict, [name |-> <<"x">>], [name |-> <<"o","c","t","o","/","r","e","p","o">>]}),
        c \in Opt("payload", {EmptyDict, [commits |-> <<1, 2, 3>>],
                              [ref_type |-> <<"t","a","g">>], [action |-> <<"o","p","e","n","e","d">>]}),
        d \in Opt("created_at", {<<"0","0","0","1","-","0","3","-","1","5","T","1","1",":","5","9",":","3","0","Z">>}) }

FormatInit ==
    /\ rEvent \in FormatEvents
    /\ rShow \in BOOLEAN
    /\ rNow \in Clocks
    /\ rResult = Ok(<<>>)
    /\ rpc = "in"

FormatApply ==
    /\ rpc = "in"
    /\ rResult' = format_event(rEvent, rShow, rNow)
    /\ rpc' = "done"
    /\ UNCHANGED <<rEvent, rShow, rNow>>

FormatNext == FormatApply /\ UNCHANGED <<runVars, filterVars, timeVars>>

InitFormat == RunOff /\ FilterOff /\ FormatInit /\ TimeOff

SpecFormat == InitFormat /\ [][FormatNext]_vars

(***************************************************************************)
(* get_time_ago applied to a date that lies a drawn number of seconds      *)
(* before now.                                                             *)
(***************************************************************************)
\* the ages at which get_time_ago changes its answer, and their doubles
Thresholds == {0, 60, 120, 3600, 7200, 86400, 172800, 2592000, 5184000}

\* the drawn ages: within AgeWindow seconds of a threshold
Ages == {a \in {t + d : t \in Thresholds, d \in (0 - AgeWindow)..AgeWindow} : a >= 0}

TimeInit ==
    /\ tAge \in Ages
    /\ tDate = DatetimeMin
    /\ \E us \in {0, 500000} :
         tNow = [days |-> tDate.days + (tAge \div 86400),
                 secs |-> tDate.secs + (tAge % 86400),
                 us   |-> us]
    /\ tResult = <<>>
    /\ tpc = "in"

TimeApply ==
    /\ tpc = "in"
    /\ tResult' = get_time_ago(tDate, tNow)
    /\ tpc' = "done"
    /\ UNCHANGED <<tDate, tNow, tAge>>

TimeNext == TimeApply /\ UNCHANGED <<runVars, filterVars, formatVars>>

InitTime == RunOff /\ FilterOff /\ FormatOff /\ TimeInit

SpecTime == InitTime /\ [][TimeNext]_vars

(***************************************************************************)
(* The claims.                                                             *)
(***************************************************************************)
Range(s) == {s[n] : n \in 1..Len(s)}

IsPrefix(p, s) == Len(p) <= Len(s) /\ SubSeq(s, 1, Len(p)) = p

\* the first n elements of s, all of s when it has fewer
FirstN(s, n) == SubSeq(s, 1, IF n < Len(s) THEN n ELSE Len(s))

\* d lies strictly above datetime.min
AboveMin(d) == d.days > 1 \/ d.secs > 0 \/ d.us > 0

\* C1: with no other filter set, a limit N >= 0 (N = 0 included) makes
\* filter_events return exactly the first min(N, |E|) records of E, in order;
\* N = 0 gives the empty list.
C1_LimitOnlyIsPrefix ==
    (fpc # "in" /\ DOMAIN fFilters = {"limit"} /\ fFilters["limit"] >= 0)
        => fOnce = FirstN(fEvents, fFilters["limit"])

\* C1: the case of the claim the code does serve, a limit N >= 1.
C1_PositiveLimitReached ==
    /\ fpc = "once"
    /\ DOMAIN fFilters = {"limit"}
    /\ fFilters["limit"] = 1
    /\ Len(fEvents) = 2
    /\ fOnce = <<fEvents[1]>>

\* C2: filter_events is idempotent for every filters dict, negative limits
\* included: filtering the result again with the same filters changes nothing.
C2_Idempotent == fpc = "twice" => fTwice = fOnce

\* the record satisfies every value constraint present in filters
Satisfies(e, f) ==
    /\ "event_type" \in DOMAIN f => ("type" \in DOMAIN e /\ e["type"] = f["event_type"])
    /\ "repo" \in DOMAIN f =>
           Contains(Lower(f["repo"]),
                    Lower(IF "repo" \in DOMAIN e /\ "name" \in DOMAIN e["repo"]
                          THEN e["repo"]["name"] ELSE <<>>))
    /\ "date_from" \in DOMAIN f => DatetimeGE(parse_event_date(e), f["date_from"])

\* C3: the result of filter_events is the subsequence of the records that
\* satisfy every present value constraint, in order, truncated to its first N
\* records when a limit N is present (stated here for N >= 0; the claim leaves
\* "the first N" of a negative N open).
C3_ConjunctiveThenLimit ==
    (fpc # "in" /\ ("limit" \in DOMAIN fFilters => fFilters["limit"] >= 0))
        => LET matching == SelectSeq(fEvents, LAMBDA e : Satisfies(e, fFilters))
           IN  fOnce = IF "limit" \in DOMAIN fFilters
                       THEN FirstN(matching, fFilters["limit"])
                       ELSE matching

\* s has the shape YYYY-MM-DDTHH:MM:SSZ: digits, and the literal separators
HasTimestampShape(s) ==
    /\ Len(s) = 20
    /\ \A n \in {1, 2, 3, 4, 6, 7, 9, 10, 12, 13, 15, 16, 18, 19} : IsDigit(s[n])
    /\ s[5] = "-" /\ s[8] = "-" /\ s[11] = "T"
    /\ s[14] = ":" /\ s[17] = ":" /\ s[20] = "Z"

\* a date_from strictly above datetime.min has left the record out of the
\* result
LeftOut(e) ==
    ("date_from" \in DOMAIN fFilters /\ AboveMin(fFilters["date_from"]))
        => e \notin Range(fOnce)

\* C4 as stated: for a record with no created_at, and for a record whose
\* created_at does not have the shape YYYY-MM-DDTHH:MM:SSZ, parse_event_date
\* returns datetime.min, and a date_from strictly above datetime.min leaves
\* the record out of the result of filter_events.
C4_UnshapedDatesAreOldest ==
    fpc # "in" => \A n \in 1..Len(fEvents) :
        ("created_at" \notin DOMAIN fEvents[n]
            \/ ~HasTimestampShape(fEvents[n]["created_at"]))
          => (parse_event_date(fEvents[n]) = DatetimeMin /\ LeftOut(fEvents[n]))

\* strptime rejects the record's created_at, '' when the record has none
Rejected(e) ==
    Strptime(IF "created_at" \in DOMAIN e THEN e["created_at"] ELSE <<>>,
             <<"%","Y","-","%","m","-","%","d","T","%","H",":","%","M",":","%","S","Z">>).exc = "ValueError"

\* C4 as amended: for a record with no created_at, and for a record whose
\* created_at strptime rejects under %Y-%m-%dT%H:%M:%SZ, parse_event_date
\* returns datetime.min without failing, and a date_from strictly above
\* datetime.min leaves the record out of the result of filter_events.
C4_RejectedDatesAreOldest ==
    fpc # "in" => \A n \in 1..Len(fEvents) :
        ("created_at" \notin DOMAIN fEvents[n] \/ Rejected(fEvents[n]))
          => (parse_event_date(fEvents[n]) = DatetimeMin /\ LeftOut(fEvents[n]))

\* C4: a date filter above the minimum has dropped a record whose created_at
\* is no timestamp and a record that has none, and kept a record whose
\* created_at is a timestamp written loosely.
C4_BadDateDropped ==
    /\ fpc = "once"
    /\ DOMAIN fFilters = {"date_from"}
    /\ AboveMin(fFilters["date_from"])
    /\ Len(fEvents) = 2
    /\ "created_at" \in DOMAIN fEvents[1]
    /\ fEvents[1]["created_at"] = <<"y","e","s","t","e","r","d","a","y">>
    /\ "created_at" \in DOMAIN fEvents[2]
    /\ fEvents[2]["created_at"] = <<"0","0","0","1","-","3","-","1","5","T","9",":","5",":","3","0","Z">>
    /\ fOnce = <<fEvents[2]>>

\* s without a trailing 'Event'
WithoutTrailingEvent(s) ==
    IF Len(s) >= 5 /\ SubSeq(s, Len(s) - 4, Len(s)) = <<"E","v","e","n","t">>
    THEN SubSeq(s, 1, Len(s) - 5) ELSE s

\* C5: format_event never fails: for a category that is none of the twelve it
\* returns "<category without trailing 'Event'> in <repository>" (repository
\* "unknown repo" when absent), and for a record with no category it still
\* returns a string, the category taken as empty.
C5_FormatNeverFails ==
    rpc = "done" =>
        LET repo == IF "repo" \in DOMAIN rEvent /\ "name" \in DOMAIN rEvent["repo"]
                    THEN rEvent["repo"]["name"] ELSE <<"u","n","k","n","o","w","n"," ","r","e","p","o">>
            category == IF "type" \in DOMAIN rEvent THEN rEvent["type"] ELSE <<>>
        IN  /\ rResult.exc = "none"
            /\ category \notin KnownTypes =>
                   IsPrefix(WithoutTrailingEvent(category) \o <<" ","i","n"," ">> \o repo, rResult.val)
            /\ (category \notin KnownTypes /\ ~rShow) =>
                   rResult.val = WithoutTrailingEvent(category) \o <<" ","i","n"," ">> \o repo

\* C5: the fallback arm on a record that has a category.
C5_FallbackReached ==
    /\ rpc = "done"
    /\ "type" \in DOMAIN rEvent
    /\ rEvent["type"] = <<"F","o","o","E","v","e","n","t">>
    /\ rResult = Ok(<<"F","o","o"," ","i","n"," ","x">>)

\* n is floor(d / q)
IsFloor(n, d, q) == n * q <= d /\ d < (n + 1) * q

\* "N unit(s) ago", the unit plural iff N # 1
Phrase(n, unit) == Str(n) \o <<" ">> \o unit \o (IF n = 1 THEN <<>> ELSE <<"s">>) \o <<" ","a","g","o">>

\* C6: for an age diff >= 0 in whole seconds get_time_ago returns "just now"
\* iff diff < 60, else "N minute(s) ago" (N = floor(diff/60)) iff diff < 3600,
\* else "N hour(s) ago" iff diff < 86400, else "N day(s) ago" iff
\* diff < 2592000, else "N month(s) ago"; the unit is plural iff N # 1.
C6_TimeAgoTiers ==
    tpc = "done" =>
        /\ (tResult = <<"j","u","s","t"," ","n","o","w">>) <=> (tAge < 60)
        /\ (tAge >= 60 /\ tAge < 3600) =>
               \E n \in 1..59 : IsFloor(n, tAge, 60) /\ tResult = Phrase(n, <<"m","i","n","u","t","e">>)
        /\ (tAge >= 3600 /\ tAge < 86400) =>
               \E n \in 1..23 : IsFloor(n, tAge, 3600) /\ tResult = Phrase(n, <<"h","o","u","r">>)
        /\ (tAge >= 86400 /\ tAge < 2592000) =>
               \E n \in 1..29 : IsFloor(n, tAge, 86400) /\ tResult = Phrase(n, <<"d","a","y">>)
        /\ tAge >= 2592000 =>
               \E n \in 1..9 : IsFloor(n, tAge, 2592000) /\ tResult = Phrase(n, <<"m","o","n","t","h">>)
        /\ tAge = 59 => tResult = <<"j","u","s","t"," ","n","o","w">>
        /\ tAge = 60 => tResult = <<"1"," ","m","i","n","u","t","e"," ","a","g","o">>
        /\ tAge = 120 => tResult = <<"2"," ","m","i","n","u","t","e","s"," ","a","g","o">>
        /\ tAge = 3600 => tResult = <<"1"," ","h","o","u","r"," ","a","g","o">>
        /\ tAge = 86400 => tResult = <<"1"," ","d","a","y"," ","a","g","o">>
        /\ tAge = 2592000 => tResult = <<"1"," ","m","o","n","t","h"," ","a","g","o">>

\* C6: get_time_ago has answered at the first second of a tier.
C6_BoundaryReached ==
    /\ tpc = "done"
    /\ tAge = 60
    /\ TotalSeconds(tNow, tDate) = 60
    /\ tResult = <<"1"," ","m","i","n","u","t","e"," ","a","g","o">>

FetchFailures == {"404", "http", "url", "json"}

\* C7: a run issues at most one request and never retries: however the request
\* fails, the run has ended with exit code 1 right after that one request,
\* with no filtering and no event printed.
C7_OneRequestNoRetry ==
    /\ requests <= 1
    /\ outcome \in FetchFailures =>
           /\ requests = 1
           /\ pc = "exit"
           /\ exit_code = 1
           /\ stages = <<"parse", "fetch">>
           /\ filtered = <<>>
           /\ shown = <<>>

\* C7: a request has failed.
C7_FailedFetchReached ==
    /\ outcome = "http"
    /\ requests = 1
    /\ pc = "exit"
    /\ out[Len(out)] = <<"E","r","r","o","r",":"," ","H","T","T","P"," ","4","0","3"," ","-"," ","r","a","t","e"," ","l","i","m","i","t"," ","e","x","c","e","e","d","e","d">>

\* the loop is at a --type flag whose value is no key of EVENT_TYPE_MAP
UnknownAliasStep ==
    /\ InLoop
    /\ Arg \in {<<"-","-","t","y","p","e">>, <<"-","t">>}
    /\ HasValue
    /\ \A n \in 1..Len(EVENT_TYPE_MAP) : EVENT_TYPE_MAP[n][1] # Lower(Value)

\* C8 as stated: once parse_arguments has processed a --type whose value is no
\* alias, the filters have no event_type, also when a valid --type came before.
C8_UnknownAliasUnsets ==
    [][UnknownAliasStep => "event_type" \notin DOMAIN filters']_vars

\* C8 as amended: a --type whose value is no alias prints a warning, does not
\* end the run and leaves the filters as they were: event_type stays unset if
\* it was unset, and keeps the value an earlier valid --type gave it.
C8_UnknownAliasIgnored ==
    [][UnknownAliasStep =>
          /\ filters' = filters
          /\ pc' = "parse" /\ exit_code' = -1 /\ i' = i + 2
          /\ out' = Append(out, <<"W","a","r","n","i","n","g",":"," ","U","n","k","n","o","w","n"," ","e","v","e","n","t"," ","t","y","p","e"," ","'">>
                                \o Lower(Value) \o <<"'","."," ","I","g","n","o","r","i","n","g",".">>)]_vars

\* C8: an unknown alias has been processed after a valid one, and the
\* event_type of the valid one is still set.
C8_UnknownAfterValidReached ==
    /\ pc = "parse"
    /\ args = <<<<"o","c","t","o">>, <<"-","-","t","y","p","e">>, <<"P","U","S","H">>, <<"-","-","t","y","p","e">>, <<"1">>>>
    /\ i = 5
    /\ out = <<<<"W","a","r","n","i","n","g",":"," ","U","n","k","n","o","w","n"," ","e","v","e","n","t"," ","t","y","p","e"," ","'","1","'","."," ","I","g","n","o","r","i","n","g",".">>>>
    /\ filters = ("event_type" :> <<"P","u","s","h","E","v","e","n","t">>)

ValueFlags == {<<"-","-","t","y","p","e">>, <<"-","t">>, <<"-","-","r","e","p","o">>, <<"-","r">>, <<"-","-","l","i","m","i","t">>, <<"-","l">>, <<"-","-","d","a","t","e">>, <<"-","d">>}

Flags == ValueFlags \cup {<<"-","-","t","o","d","a","y">>, <<"-","-","w","e","e","k">>}

\* an optional sign and then decimal digits
IsInteger(s) ==
    LET body == IF s # <<>> /\ s[1] \in {"+", "-"} THEN Tail(s) ELSE s
    IN  body # <<>> /\ \A n \in 1..Len(body) : IsDigit(body[n])

\* the loop is at a flag that has no value, or at a --limit or --date whose
\* value is no integer, no date
FatalStep ==
    /\ InLoop
    /\ \/ Arg \in ValueFlags /\ ~HasValue
       \/ Arg \in {<<"-","-","l","i","m","i","t">>, <<"-","l">>} /\ HasValue /\ ~IsInteger(Value)
       \/ Arg \in {<<"-","-","d","a","t","e">>, <<"-","d">>} /\ HasValue
              /\ Strptime(Value, <<"%","Y","-","%","m","-","%","d">>).exc = "ValueError"

\* C9: the run ends with exit code 1 on an empty argument list, on a flag
\* without its value, on a --limit that is no integer and on a --date that is
\* no date; any other token that is no flag is skipped and does not end the
\* run; and a run whose fetch succeeds ends with exit code 0.
C9_ExitCodes ==
    [][/\ (pc = "start" /\ args = <<>>) => (pc' = "exit" /\ exit_code' = 1)
       /\ FatalStep => (pc' = "exit" /\ exit_code' = 1)
       /\ (InLoop /\ Arg \notin Flags) =>
              (pc' = "parse" /\ exit_code' = -1 /\ i' = i + 1 /\ filters' = filters)
       /\ (outcome' = "ok" /\ pc' = "exit") => exit_code' = 0]_vars

\* the order of main's stages
StageOrder == <<"parse", "fetch", "filter", "display">>

\* the number of printed lines that are event lines ("- ...")
RECURSIVE EventLines(_)
EventLines(lines) ==
    IF lines = <<>> THEN 0
    ELSE (IF IsPrefix(<<"-"," ">>, lines[1]) THEN 1 ELSE 0) + EventLines(Tail(lines))

\* C10: a run goes one way through parsing, fetch, filter and display, each
\* entered at most once: the request is issued only after the whole argument
\* list was parsed without a fatal error, the filter runs only on the result
\* of a successful fetch, and an event line is printed only for the next
\* record of the filter's output.
C10_OneWay ==
    [][/\ IsPrefix(stages', StageOrder)
       /\ stages' # stages => stages' = SubSeq(StageOrder, 1, Len(stages) + 1)
       /\ requests' # requests =>
              (pc = "fetch" /\ username # None /\ exit_code = -1
                  /\ stages = <<"parse">>)
       /\ (pc' = "fetch" /\ pc # "fetch") =>
              (pc = "parse" /\ args # <<>> /\ i >= Len(args) /\ exit_code = -1)
       /\ (stages' # stages /\ Len(stages') >= 3) => outcome = "ok"
       /\ filtered' # filtered => (outcome = "ok" /\ pc = "filter")
       /\ EventLines(out') = Len(shown')
       /\ shown' = SubSeq(filtered', 1, Len(shown'))
       /\ pc = "exit" => pc' = "exit"]_vars

\* C10: a run has gone through all four stages and printed an event line.
C10_FullRunReached ==
    /\ pc = "exit"
    /\ exit_code = 0
    /\ stages = StageOrder
    /\ requests = 1
    /\ Len(shown) = 1
    /\ EventLines(out) = 1

=============================================================================
